---- MODULE Spec2Model ----
(***************************************************************************)
(* fiorbd_runner (src/main.py): a phased fio benchmark with a background   *)
(* "rados df" sampler thread, and a rebalance experiment that reweights    *)
(* OSDs and waits on the cluster's recovery state.                         *)
(*                                                                         *)
(* Time is a discrete clock `now` (seconds, what time.time() returns);     *)
(* it advances by the Tick action between the steps of the program.       *)
(* External commands (ceph, rados, rbd, fio) are the environment: each     *)
(* call draws its outcome from the outcomes subprocess can produce.        *)
(***************************************************************************)
EXTENDS Integers, Sequences, FiniteSets, TLC

\* ---------------------------------------------------------------- bounds
MaxTime == 5
MaxRebTime == 2
MaxPhases == 2
MaxJobs == 2
MaxCount == 2
MaxOsd == 2
MaxPolls == 2
MaxFio == 2
MaxHosts == 2
MaxTreeOsd == 4

\* ------------------------------------------------------ program constants
Million == 1000000
DefaultLatLimit == 20
CaptureTimeout == 5
OrigWeight == 185199

\* Outcomes of subprocess.check_call / check_output with a timeout:
\* the command exits 0, the timeout expires (subprocess.TimeoutExpired),
\* or the command exits non-zero (subprocess.CalledProcessError).
CmdOutcomes == {"ok", "timeout", "nonzero"}
\* Without a timeout argument only two outcomes remain.
CmdOutcomesNoTimeout == {"ok", "nonzero"}

\* Raw clat_ns percentile values a job group can report (nanoseconds).
RawLats == {15 * Million, 20 * Million, 25 * Million}

\* fio's json output: one percentile value per job group ("jobs" list).
JobOutputs == UNION {[1..n -> RawLats] : n \in 1..MaxJobs}

\* opts.monitoring_period (-m) and opts.timeout (--timeout), in seconds.
Periods == {2}
Timeouts == {2}

\* opts.qd of fio_test: the ordered queue depths (caller order is trusted,
\* a value may be repeated): the increasing list 1..MaxPhases, and a list
\* that names a queue depth twice.
QDLists == {[k \in 1..MaxPhases |-> k], <<1, 1>>}

\* opts.osd of rebalance: the OSD ids given on the command line.
OsdLists == {[k \in 1..MaxOsd |-> k]}

VARIABLES
    now,        \* time.time()
    opts,       \* parsed command line and the state of the world it names
    fpc,        \* position of the main thread
    exc,        \* exception propagating in the main thread ("none" if none)
    result,     \* how main ended: "running", "return0", "return1", "SystemExit1", "uncaught"
    files,      \* files under output_dir: records [dir, name, ts, ok]
    dirs,       \* per-phase run directories created (their queue depth)
    qi,         \* run_test: index of the current queue depth in opts.qd
    cfg,        \* the config template opts.cfg: "unread", "ok" or "bad" (bad placeholder)
    max_p,      \* run_test: max_p of the last evaluated phase, raw (before /= 10**6)
    fio_runs,   \* load generator launches so far: sequence of [qd, rc]
    evt,        \* monitoring: the stop Event
    tpc,        \* position of the sampler thread
    next,       \* monitoring_func: next
    cap_start,  \* monitoring_func: the time the current tick began
    ticks,      \* number of ticks the sampler began (the last names output_fl)
    reb,        \* rebalance: its local variables
    cluster,    \* the ceph cluster: crush weights and recovery state
    health,     \* ceph_health_ok caller: position, polls made and last result
    gen         \* helpers.iter_osds: the generator's frame and what it yielded

vars ==
    <<now, opts, fpc, exc, result, files, dirs, qi, cfg, max_p, fio_runs, evt, tpc, next,
      cap_start, ticks, reb, cluster, health, gen>>

mainVars == <<fpc, exc, result>>
runVars == <<qi, cfg, max_p, fio_runs, dirs>>
samplerVars == <<tpc, next, cap_start, ticks>>

\* ------------------------------------------------------------ filesystem
RootDir == 0
MonDir == -1

File(dir, name, ts, ok) == [dir |-> dir, name |-> name, ts |-> ts, ok |-> ok]

SamePath(f, dir, name, ts) == f.dir = dir /\ f.name = name /\ f.ts = ts

Exists(fs, dir, name, ts) == \E f \in fs : SamePath(f, dir, name, ts)

\* open(path, "w"/"wb") then a complete write: the path holds a whole artifact.
WriteFile(fs, dir, name, ts) ==
    {f \in fs : ~SamePath(f, dir, name, ts)} \cup {File(dir, name, ts, TRUE)}

\* open(path, "wb") with nothing (or only part) written: the path exists.
TruncateFile(fs, dir, name, ts) ==
    {f \in fs : ~SamePath(f, dir, name, ts)} \cup {File(dir, name, ts, FALSE)}

\* Path.unlink()
Unlink(fs, dir, name, ts) == {f \in fs : ~SamePath(f, dir, name, ts)}

\* ------------------------------------------------------------ run_cmd_to
\* The files after run_cmd_to(fpath, cmd): fpath is opened "wb" (created,
\* truncated); on exit 0 it holds the command's output; on TimeoutExpired
\* it is unlinked; on CalledProcessError nothing is caught and the file
\* the command was writing to stays.
run_cmd_to(fs, dir, name, ts, outcome) ==
    CASE outcome = "ok" -> WriteFile(fs, dir, name, ts)
      [] outcome = "timeout" -> Unlink(TruncateFile(fs, dir, name, ts), dir, name, ts)
      [] outcome = "nonzero" -> TruncateFile(fs, dir, name, ts)

\* The exception run_cmd_to lets through ("none": it returned True or False).
run_cmd_to_exc(outcome) ==
    IF outcome = "nonzero" THEN "CalledProcessError" ELSE "none"

\* ------------------------------------------------------------------ main
\* An exception leaves main: the process ends with a traceback.
Uncaught(kind) ==
    /\ fpc' = "exited"
    /\ exc' = kind
    /\ result' = "uncaught"

\* main, lines 258-261: the pool must be a test pool unless --unsafe.
MainCheckPool ==
    /\ fpc = "main"
    /\ \E safe \in BOOLEAN :
          IF safe
          THEN fpc' = "prepare_output_dir" /\ UNCHANGED <<exc, result>>
          ELSE fpc' = "exited" /\ result' = "return1" /\ UNCHANGED exc
    /\ UNCHANGED <<now, opts, gen, files, runVars, evt, samplerVars, reb, cluster, health>>

\* prepare_output_dir and the comment file, lines 263-266.
PrepareOutputDir ==
    /\ fpc = "prepare_output_dir"
    /\ \E exists \in BOOLEAN, wipe \in BOOLEAN :
          IF exists /\ ~wipe
          THEN /\ fpc' = "exited"
               /\ result' = "SystemExit1"
               /\ UNCHANGED <<exc, files>>
          ELSE /\ fpc' = "get_volume_size"
               /\ files' = WriteFile({}, RootDir, "comment", 0)
               /\ UNCHANGED <<exc, result>>
    /\ UNCHANGED <<now, opts, gen, runVars, evt, samplerVars, reb, cluster, health>>

\* What "rbd info" can print about the size: no line that starts with
\* "size", or a "size" line with so many fields, a number that int()
\* accepts or not, and a unit.
NoSizeLine == [fields |-> 0, integer |-> FALSE, units |-> "none"]
SizeLines ==
    {NoSizeLine} \cup [fields : {1, 3, 5}, integer : BOOLEAN, units : {"MB", "GB", "TB", "GiB"}]

\* get_volume_size, lines 218-223, on the output of "rbd info": "ok" (a
\* size is returned) or the way the function is left.  Line 220 unpacks
\* at least three fields (ValueError), line 221 evaluates int(sz_s)
\* (ValueError) and then looks the unit up among MB, GB, TB (KeyError).
get_volume_size(line) ==
    CASE line = NoSizeLine -> "SystemExit1"
      [] line.fields < 3 -> "ValueError"
      [] ~line.integer -> "ValueError"
      [] line.units \notin {"MB", "GB", "TB"} -> "KeyError"
      [] OTHER -> "ok"

\* get_volume_size, lines 217-223 (called at line 268).
GetVolumeSize ==
    /\ fpc = "get_volume_size"
    /\ \E outcome \in CmdOutcomesNoTimeout, line \in SizeLines :
          CASE outcome = "nonzero" -> Uncaught("CalledProcessError")
            [] outcome = "ok" /\ get_volume_size(line) = "SystemExit1" ->
                 fpc' = "exited" /\ result' = "SystemExit1" /\ UNCHANGED exc
            [] outcome = "ok" /\ get_volume_size(line) \in {"ValueError", "KeyError"} ->
                 Uncaught(get_volume_size(line))
            [] OTHER -> fpc' = "rbd_info" /\ UNCHANGED <<exc, result>>
    /\ UNCHANGED <<now, opts, gen, files, runVars, evt, samplerVars, reb, cluster, health>>

\* main, lines 271-272: the two initial run_cmd_to calls.
SaveInitialInfo ==
    /\ fpc \in {"rbd_info", "rbd_du"}
    /\ \E outcome \in CmdOutcomes :
          /\ files' = run_cmd_to(files, RootDir, fpc, 0, outcome)
          /\ IF run_cmd_to_exc(outcome) # "none"
             THEN Uncaught(run_cmd_to_exc(outcome))
             ELSE /\ fpc' = IF fpc = "rbd_info" THEN "rbd_du" ELSE "dispatch"
                  /\ UNCHANGED <<exc, result>>
    /\ UNCHANGED <<now, opts, gen, runVars, evt, samplerVars, reb, cluster, health>>

\* main, lines 274-280: the subcommand selects the workflow.
Dispatch ==
    /\ fpc = "dispatch"
    /\ fpc' = IF opts.subparser_name = "fio_test" THEN "monitoring_enter" ELSE "rebalance"
    /\ UNCHANGED <<now, opts, gen, exc, result, files, runVars, evt, samplerVars, reb,
                   cluster, health>>

\* main, lines 282-283.
MainDone ==
    /\ fpc = "main_done"
    /\ fpc' = "exited"
    /\ result' = "return0"
    /\ UNCHANGED <<now, opts, gen, exc, files, runVars, evt, samplerVars, reb, cluster, health>>

\* ------------------------------------------------------------ monitoring
\* monitoring(), lines 131-133: the Event is created clear and the
\* sampler thread is started; the body of the with statement follows.
MonitoringEnter ==
    /\ fpc = "monitoring_enter"
    /\ evt' = FALSE
    /\ tpc' = "started"
    /\ fpc' = "rt_open_cfg"
    /\ UNCHANGED <<now, opts, gen, exc, result, files, runVars, next, cap_start, ticks, reb,
                   cluster, health>>

\* monitoring(), line 139 in the finally clause: evt.set().
MonitoringSet ==
    /\ fpc = "mon_finally"
    /\ evt' = TRUE
    /\ fpc' = "mon_join"
    /\ UNCHANGED <<now, opts, gen, exc, result, files, runVars, samplerVars, reb, cluster, health>>

\* A thread that has ended (returned, or died of an exception) is joinable.
Terminated == {"finished", "died"}

\* monitoring(), line 140: th.join() returns once the thread has ended;
\* then the with statement re-raises the exception of its body, if any.
MonitoringJoin ==
    /\ fpc = "mon_join"
    /\ tpc \in Terminated
    /\ IF exc = "none"
       THEN fpc' = "main_done" /\ UNCHANGED <<exc, result>>
       ELSE Uncaught(exc)
    /\ UNCHANGED <<now, opts, gen, files, runVars, evt, samplerVars, reb, cluster, health>>

\* -------------------------------------------------------------- run_test
RunTestPcs ==
    {"rt_open_cfg", "rt_phase", "rt_before", "rt_before_run", "rt_fio", "rt_fio_run",
     "rt_after", "rt_after_run", "rt_interval", "rt_eval"}

\* An exception leaves run_test: control passes to monitoring's finally.
RaiseInRunTest(kind) ==
    /\ fpc' = "mon_finally"
    /\ exc' = kind

\* run_test returns (end of the list, or break): the finally clause runs.
ReturnFromRunTest ==
    /\ fpc' = "mon_finally"
    /\ UNCHANGED exc

\* run_test, line 89: the template file is read.
RunTestOpenCfg ==
    /\ fpc = "rt_open_cfg"
    /\ \E c \in {"missing", "bad", "ok"} :
          IF c = "missing"
          THEN RaiseInRunTest("FileNotFoundError") /\ UNCHANGED <<cfg, qi>>
          ELSE fpc' = "rt_phase" /\ cfg' = c /\ qi' = 1 /\ UNCHANGED exc
    /\ UNCHANGED <<now, opts, gen, result, files, dirs, max_p, fio_runs, evt, samplerVars, reb,
                   cluster, health>>

\* run_test, lines 90-102: the next queue depth, its run directory
\* (mkdir fails if it exists), the rendered config (format fails on an
\* unknown placeholder).
RunTestPhase ==
    /\ fpc = "rt_phase"
    /\ IF qi > Len(opts.qd)
       THEN /\ ReturnFromRunTest
            /\ UNCHANGED <<dirs, files>>
       ELSE LET qd == opts.qd[qi] IN
            IF qd \in dirs
            THEN /\ RaiseInRunTest("FileExistsError")
                 /\ UNCHANGED <<dirs, files>>
            ELSE /\ dirs' = dirs \cup {qd}
                 /\ IF cfg = "bad"
                    THEN /\ RaiseInRunTest("KeyError")
                         /\ UNCHANGED files
                    ELSE /\ files' = WriteFile(files, qd, "cfg.fio", 0)
                         /\ fpc' = "rt_before"
                         /\ UNCHANGED exc
    /\ UNCHANGED <<now, opts, gen, result, qi, cfg, max_p, fio_runs, evt, samplerVars, reb,
                   cluster, health>>

SnapshotName(pc) == IF pc \in {"rt_before", "rt_before_run"} THEN "before.json" ELSE "after.json"

\* run_test, lines 105 and 108, run_cmd_to line 75: the snapshot file is
\* opened for writing (created, truncated) and "ceph report" is started.
RunTestSnapshotOpen ==
    /\ fpc \in {"rt_before", "rt_after"}
    /\ files' = TruncateFile(files, opts.qd[qi], SnapshotName(fpc), 0)
    /\ fpc' = IF fpc = "rt_before" THEN "rt_before_run" ELSE "rt_after_run"
    /\ UNCHANGED <<now, opts, gen, exc, result, runVars, evt, samplerVars, reb, cluster, health>>

\* run_test, lines 105 and 108, run_cmd_to lines 76-81: "ceph report"
\* has ended, or its timeout has expired.
RunTestSnapshot ==
    /\ fpc \in {"rt_before_run", "rt_after_run"}
    /\ \E outcome \in CmdOutcomes :
          /\ files' = run_cmd_to(files, opts.qd[qi], SnapshotName(fpc), 0, outcome)
          /\ IF run_cmd_to_exc(outcome) # "none"
             THEN RaiseInRunTest(run_cmd_to_exc(outcome))
             ELSE /\ fpc' = IF fpc = "rt_before_run" THEN "rt_fio" ELSE "rt_interval"
                  /\ UNCHANGED exc
    /\ UNCHANGED <<now, opts, gen, result, runVars, evt, samplerVars, reb, cluster, health>>

\* run_test, line 106: fio is launched.
RunTestFioLaunch ==
    /\ fpc = "rt_fio"
    /\ fio_runs' = Append(fio_runs, [qd |-> opts.qd[qi], rc |-> "running"])
    /\ fpc' = "rt_fio_run"
    /\ UNCHANGED <<now, opts, gen, exc, result, files, dirs, qi, cfg, max_p, evt, samplerVars,
                   reb, cluster, health>>

\* What a fio that did not exit 0 can leave at its --output path: no
\* file, a file it did not finish, or a whole file.  The program removes
\* nothing.
FioLeaves(fs, dir, name, ts) ==
    {fs, TruncateFile(fs, dir, name, ts), WriteFile(fs, dir, name, ts)}

\* The last launch of fio has ended with rc.
FioEnded(runs, rc) == [runs EXCEPT ![Len(runs)].rc = rc]

\* A faulty variant of RunTestFio: the exit status of fio is not checked.
RunTestFio_IgnoreExit ==
    /\ fpc = "rt_fio_run"
    /\ \E rc \in CmdOutcomesNoTimeout :
          /\ fio_runs' = FioEnded(fio_runs, rc)
          /\ files' = IF rc = "ok" THEN WriteFile(files, opts.qd[qi], "fio_output.json", 0)
                      ELSE files
          /\ fpc' = "rt_after"
          /\ UNCHANGED exc
    /\ UNCHANGED <<now, opts, gen, result, dirs, qi, cfg, max_p, evt, samplerVars, reb, cluster,
                   health>>

\* run_test, line 106: subprocess.check_call(fio ...), no timeout, has
\* returned; a non-zero exit raises CalledProcessError.
RunTestFio ==
    /\ fpc = "rt_fio_run"
    /\ \E rc \in CmdOutcomesNoTimeout :
          /\ fio_runs' = FioEnded(fio_runs, rc)
          /\ IF rc = "ok"
             THEN /\ files' = WriteFile(files, opts.qd[qi], "fio_output.json", 0)
                  /\ fpc' = "rt_after"
                  /\ UNCHANGED exc
             ELSE /\ RaiseInRunTest("CalledProcessError")
                  /\ files' \in FioLeaves(files, opts.qd[qi], "fio_output.json", 0)
    /\ UNCHANGED <<now, opts, gen, result, dirs, qi, cfg, max_p, evt, samplerVars, reb, cluster,
                   health>>

\* run_test, lines 110-111: the interval record of the phase is written.
RunTestInterval ==
    /\ fpc = "rt_interval"
    /\ files' = WriteFile(files, opts.qd[qi], "interval.json", 0)
    /\ fpc' = "rt_eval"
    /\ UNCHANGED <<now, opts, gen, exc, result, runVars, evt, samplerVars, reb, cluster, health>>

\* run_test, lines 114-118: the maximum over the job groups, from 0.
RECURSIVE MaxP(_, _)
MaxP(data, acc) ==
    IF data = <<>> THEN acc
    ELSE MaxP(Tail(data), IF Head(data) > acc THEN Head(data) ELSE acc)

\* A faulty variant of LatencyExceeded: a latency equal to the limit
\* stops the run too.
LatencyExceeded_NonStrict(raw, lat_limit) == raw >= lat_limit * Million

\* run_test, lines 120-121: max_p /= 10**6; max_p > opts.lat_limit.
\* The quotient raw / 10**6 is compared exactly (cross-multiplied).
LatencyExceeded(raw, lat_limit) == raw > lat_limit * Million

\* A faulty variant of RunTestEvaluate: the latency is reported but the loop is
\* not left.
RunTestEvaluate_NoBreak ==
    /\ fpc = "rt_eval"
    /\ \E data \in JobOutputs :
          /\ max_p' = MaxP(data, 0)
          /\ fpc' = "rt_phase" /\ qi' = qi + 1 /\ UNCHANGED exc
    /\ UNCHANGED <<now, opts, gen, result, files, dirs, cfg, fio_runs, evt, samplerVars, reb,
                   cluster, health>>

\* A faulty variant of RunTestEvaluate: the stop is signalled by raising.
RunTestEvaluate_StopRaises ==
    /\ fpc = "rt_eval"
    /\ \E data \in JobOutputs :
          /\ max_p' = MaxP(data, 0)
          /\ IF LatencyExceeded(max_p', opts.lat_limit)
             THEN RaiseInRunTest("RuntimeError") /\ UNCHANGED qi
             ELSE fpc' = "rt_phase" /\ qi' = qi + 1 /\ UNCHANGED exc
    /\ UNCHANGED <<now, opts, gen, result, files, dirs, cfg, fio_runs, evt, samplerVars, reb,
                   cluster, health>>

\* run_test, lines 113-125, for the output data of fio: the maximum over
\* the job groups, the stop criterion; break, or go on with the next
\* queue depth.
RunTestEvaluateOutput(data) ==
    /\ fpc = "rt_eval"
    /\ max_p' = MaxP(data, 0)
    /\ IF LatencyExceeded(max_p', opts.lat_limit)
       THEN ReturnFromRunTest /\ UNCHANGED qi
       ELSE fpc' = "rt_phase" /\ qi' = qi + 1 /\ UNCHANGED exc
    /\ UNCHANGED <<now, opts, gen, result, files, dirs, cfg, fio_runs, evt, samplerVars, reb,
                   cluster, health>>

\* run_test, lines 113-125: parse fio's output, evaluate the stop
\* criterion; break, or go on with the next queue depth.
RunTestEvaluate == \E data \in JobOutputs : RunTestEvaluateOutput(data)

\* An external interrupt (KeyboardInterrupt in the main thread) while
\* run_test is executing.  Inside a "ceph report" call the file that was
\* opened stays as it is; inside the fio call, check_call kills fio,
\* which leaves what it leaves.
RunTestInterrupt ==
    /\ fpc \in RunTestPcs
    /\ RaiseInRunTest("KeyboardInterrupt")
    /\ IF fpc = "rt_fio_run"
       THEN /\ fio_runs' = FioEnded(fio_runs, "killed")
            /\ files' \in FioLeaves(files, opts.qd[qi], "fio_output.json", 0)
       ELSE UNCHANGED <<fio_runs, files>>
    /\ UNCHANGED <<now, opts, gen, result, dirs, qi, cfg, max_p, evt, samplerVars, reb, cluster,
                   health>>

\* An external interrupt while the finally clause of monitoring() runs
\* (lines 138-140: before evt.set(), or while th.join() waits): the
\* KeyboardInterrupt replaces the exception being propagated, if any,
\* and leaves main; the sampler thread is where it was.
MonitoringInterrupt ==
    /\ fpc \in {"mon_finally", "mon_join"}
    /\ Uncaught("KeyboardInterrupt")
    /\ UNCHANGED <<now, opts, gen, files, runVars, evt, samplerVars, reb, cluster, health>>

\* ------------------------------------------------------- monitoring_func
\* monitoring_func, lines 58-60: next = time.time(), the monitoring dir.
SamplerStart ==
    /\ tpc = "started"
    /\ next' = now
    /\ tpc' = "wait"
    /\ UNCHANGED <<now, opts, gen, mainVars, files, runVars, evt, cap_start, ticks, reb, cluster,
                   health>>

\* A faulty variant of SamplerWait: the deadline is looked at before the
\* event, so a tick that is due still begins after the event was set.
SamplerWait_DeadlineFirst ==
    /\ tpc = "wait"
    /\ IF now >= next THEN tpc' = "tick" /\ UNCHANGED next
       ELSE evt /\ tpc' = "finished" /\ next' = 0
    /\ UNCHANGED <<now, opts, gen, mainVars, files, runVars, evt, cap_start, ticks, reb, cluster,
                   health>>

\* monitoring_func, line 62: stop_evt.wait(next - time.time()) returns
\* True as soon as the event is set (the function returns, its locals are
\* gone), False once the timeout has elapsed.
SamplerWait ==
    /\ tpc = "wait"
    /\ IF evt THEN tpc' = "finished" /\ next' = 0
       ELSE now >= next /\ tpc' = "tick" /\ UNCHANGED next
    /\ UNCHANGED <<now, opts, gen, mainVars, files, runVars, evt, cap_start, ticks, reb, cluster,
                   health>>

\* monitoring_func, lines 63-66: the next deadline, the tick's file
\* (named by the millisecond clock, one name per tick: the model names it
\* by the tick's ordinal) and the file opened for writing.
SamplerTick ==
    /\ tpc = "tick"
    /\ next' = now + opts.monitoring_period
    /\ cap_start' = now
    /\ ticks' = ticks + 1
    /\ files' = TruncateFile(files, MonDir, "radosdf", ticks + 1)
    /\ tpc' = "capture"
    /\ UNCHANGED <<now, opts, gen, mainVars, runVars, evt, reb, cluster, health>>

\* monitoring_func, lines 65-70: the files after the capture into the
\* already opened output_fl; only TimeoutExpired unlinks it.
rados_df(fs, ts, outcome) ==
    CASE outcome = "ok" -> WriteFile(fs, MonDir, "radosdf", ts)
      [] outcome = "timeout" -> Unlink(fs, MonDir, "radosdf", ts)
      [] outcome = "nonzero" -> TruncateFile(fs, MonDir, "radosdf", ts)

\* monitoring_func, lines 67-70: check_call("rados df", timeout=5), which
\* began at cap_start.  Exit 0 leaves the snapshot; TimeoutExpired is
\* caught and the file unlinked; CalledProcessError is not caught and
\* ends the thread.
SamplerCapture ==
    /\ tpc = "capture"
    /\ \E outcome \in CmdOutcomes :
          /\ IF outcome = "timeout"
             THEN now - cap_start >= CaptureTimeout
             ELSE now - cap_start <= CaptureTimeout
          /\ files' = rados_df(files, ticks, outcome)
          /\ tpc' = IF outcome = "nonzero" THEN "died" ELSE "wait"
          /\ next' = IF outcome = "nonzero" THEN 0 ELSE next
    /\ cap_start' = 0
    /\ UNCHANGED <<now, opts, gen, mainVars, runVars, evt, ticks, reb, cluster, health>>

\* ------------------------------------------------------ the ceph cluster
\* "ceph osd crush reweight osd.N W" (line 171): the crush weight of the
\* OSD becomes W; a weight that changed leaves data to move.
Reweight(cl, osd, w) ==
    [weights |-> [cl.weights EXCEPT ![osd] = w],
     state |-> IF cl.weights[osd] # w /\ cl.state = "clean" THEN "pending" ELSE cl.state,
     warn |-> cl.warn]

\* health.status of "ceph status": HEALTH_OK only when no health check is
\* raised, neither PG_DEGRADED nor another one (warn).
ceph_status(cl) ==
    IF cl.state = "degraded" \/ cl.warn THEN "HEALTH_WARN" ELSE "HEALTH_OK"

\* The cluster starts moving data: PG_DEGRADED appears in the checks.
RecoveryBegins ==
    /\ result = "running"
    /\ cluster.state = "pending"
    /\ cluster' = [cluster EXCEPT !.state = "degraded"]
    /\ UNCHANGED <<now, opts, gen, mainVars, files, runVars, evt, samplerVars, reb, health>>

\* The data movement ends: PG_DEGRADED disappears.
RecoveryEnds ==
    /\ result = "running"
    /\ cluster.state = "degraded"
    /\ cluster' = [cluster EXCEPT !.state = "clean"]
    /\ UNCHANGED <<now, opts, gen, mainVars, files, runVars, evt, samplerVars, reb, health>>

\* ------------------------------------------------------------ the oracle
\* What "ceph status -f json" can answer within its timeout.
StatusOutcomes == {"HEALTH_OK", "HEALTH_WARN", "HEALTH_ERR", "timeout", "nonzero"}

\* ceph_health_ok, lines 16-21.  check_output raises
\* subprocess.TimeoutExpired on a timeout, which is no TimeoutError
\* (it derives from SubprocessError), so the except clause does not
\* catch it.  The value is "true", "false" or the exception raised.
ceph_health_ok(q) ==
    CASE q = "timeout" -> "TimeoutExpired"
      [] q = "nonzero" -> "CalledProcessError"
      [] OTHER -> IF q = "HEALTH_OK" THEN "true" ELSE "false"

\* no_recovery, lines 24-26: no try at all; "ok" answers from the
\* cluster's checks.
no_recovery(outcome, cl) ==
    CASE outcome = "timeout" -> "TimeoutExpired"
      [] outcome = "nonzero" -> "CalledProcessError"
      [] OTHER -> IF cl.state # "degraded" THEN "true" ELSE "false"

\* A caller looping on ceph_health_ok until the cluster is healthy, as
\* wait_ok_status does: while not ceph_health_ok(): sleep.
HealthLoopPoll ==
    /\ health.pc = "poll"
    /\ health.polls < MaxPolls
    /\ \E q \in StatusOutcomes :
          LET r == ceph_health_ok(q) IN
          health' = [pc |-> CASE r = "true" -> "done"
                              [] r = "false" -> "poll"
                              [] OTHER -> "raised",
                     polls |-> health.polls + 1,
                     query |-> q,
                     last |-> r]
    /\ UNCHANGED <<now, opts, gen, mainVars, files, runVars, evt, samplerVars, reb, cluster>>

\* ------------------------------------------------- helpers.py: iter_osds
\* "ceph osd tree -f json": data['nodes'] is a list of nodes, here records
\* [id, name, type_id, dc, children]; dc = "absent" says the node has no
\* 'device_class' key.  A tree is drawn by placing each of the OSDs
\* 1..MaxTreeOsd under one of the hosts 1..MaxHosts (type_id 2) or under
\* none (host 0), and giving it a device class.
DeviceClasses == {"sata", "ssd"}

Placements == [1..MaxTreeOsd -> (0..MaxHosts) \X DeviceClasses]

RECURSIVE SortedSeq(_)
SortedSeq(S) ==
    IF S = {} THEN <<>>
    ELSE LET m == CHOOSE x \in S : \A y \in S : x <= y
         IN <<m>> \o SortedSeq(S \ {m})

ChildrenOf(p, h) == SortedSeq({o \in DOMAIN p : p[o][1] = h})

OsdNode(p, o) ==
    [id |-> o, name |-> <<"osd", o>>, type_id |-> 0, dc |-> p[o][2], children |-> <<>>]

RECURSIVE OsdNodes(_, _)
OsdNodes(p, ids) ==
    IF ids = <<>> THEN <<>> ELSE <<OsdNode(p, Head(ids))>> \o OsdNodes(p, Tail(ids))

HostNode(p, h) ==
    [id |-> 0 - (h + 1), name |-> <<"host", h>>, type_id |-> 2, dc |-> "absent",
     children |-> ChildrenOf(p, h)]

RECURSIVE HostSubtrees(_, _)
HostSubtrees(p, h) ==
    IF h > MaxHosts THEN <<>>
    ELSE <<HostNode(p, h)>> \o OsdNodes(p, ChildrenOf(p, h)) \o HostSubtrees(p, h + 1)

RootNode(p) ==
    [id |-> 0 - 1, name |-> <<"root", 0>>, type_id |-> 10, dc |-> "absent",
     children |-> [h \in 1..MaxHosts |-> 0 - (h + 1)] \o ChildrenOf(p, 0)]

\* The node list in the order the tree is printed: the root, every host
\* followed by its OSDs, then the OSDs under no host.
TreeOf(p) == <<RootNode(p)>> \o HostSubtrees(p, 1) \o OsdNodes(p, ChildrenOf(p, 0))

OsdTrees == {TreeOf(p) : p \in Placements}

\* A dict is the sequence of its <<key, value>> items in insertion order.
DictKeys(d) == {d[i][1] : i \in DOMAIN d}

DictSet(d, k, v) ==
    IF k \in DictKeys(d)
    THEN [i \in DOMAIN d |-> IF d[i][1] = k THEN <<k, v>> ELSE d[i]]
    ELSE Append(d, <<k, v>>)

RECURSIVE IdsOf(_)
IdsOf(ns) == IF ns = <<>> THEN <<>> ELSE <<Head(ns).id>> \o IdsOf(Tail(ns))

InList(x, l) == \E i \in DOMAIN l : l[i] = x

\* iter_osds, lines 7-10: classes[device_class] is the list of the ids
\* of the nodes that have this device_class; a class no node has is no
\* key of it.
classes(data) ==
    [c \in {data[i].dc : i \in DOMAIN data} \ {"absent"} |->
        IdsOf(SelectSeq(data, LAMBDA n : n.dc = c))]

\* iter_osds, lines 12-15: nodes[name] = children of every node with
\* type_id 2, a later node of the same name replacing an earlier one.
RECURSIVE nodes(_)
nodes(data) ==
    IF data = <<>> THEN <<>>
    ELSE LET init == nodes(SubSeq(data, 1, Len(data) - 1))
             node == data[Len(data)]
         IN IF node.type_id = 2 THEN DictSet(init, node.name, node.children) ELSE init

\* iter_osds, line 19: the children of a host that are in classes['sata'].
SataOf(osds, sata) == SelectSeq(osds, LAMBDA osd_id : InList(osd_id, sata))

\* iter_osds, lines 17-19, given classes['sata'].
sata_osds(nd, sata) == [i \in DOMAIN nd |-> <<nd[i][1], SataOf(nd[i][2], sata)>>]

\* iter_osds, lines 24 and 28: the items whose list is not empty.
NonEmpty(d) == SelectSeq(d, LAMBDA item : item[2] # <<>>)

\* iter_osds, line 26: sorted(items, key=len of the list)[-1].  The sort
\* is stable, so the last item of the sorted list is the last item, in
\* dict order, among those with the longest list.
LastOfSorted(d) ==
    LET longest == CHOOSE n \in {Len(d[i][2]) : i \in DOMAIN d} :
                       \A i \in DOMAIN d : Len(d[i][2]) <= n
    IN CHOOSE i \in DOMAIN d :
           /\ Len(d[i][2]) = longest
           /\ \A j \in DOMAIN d : j > i => Len(d[j][2]) # longest

\* list.pop(): the list without its last element.
Pop(l) == SubSeq(l, 1, Len(l) - 1)

NoGen == [pc |-> "off", data |-> <<>>, sata_osds |-> <<>>, yields |-> <<>>, exc |-> "none"]

\* iter_osds, lines 7-24: up to the first test of the while loop.  The
\* condition of the comprehension on line 19 is evaluated once per child
\* of a host: with a host that has a child and no node of class 'sata',
\* classes['sata'] raises KeyError.
IterOsdsStart ==
    /\ gen.pc = "start"
    /\ LET cl == classes(gen.data)
           nd == nodes(gen.data)
           sata == IF "sata" \in DOMAIN cl THEN cl["sata"] ELSE <<>>
       IN IF "sata" \notin DOMAIN cl /\ \E i \in DOMAIN nd : nd[i][2] # <<>>
          THEN gen' = [gen EXCEPT !.pc = "raised", !.exc = "KeyError"]
          ELSE gen' = [gen EXCEPT !.pc = "loop", !.sata_osds = NonEmpty(sata_osds(nd, sata))]
    /\ UNCHANGED <<now, opts, mainVars, files, runVars, evt, samplerVars, reb, cluster, health>>

\* iter_osds, lines 25-28: one turn of the loop, yielding a pair.
IterOsdsYield ==
    /\ gen.pc = "loop"
    /\ gen.sata_osds # <<>>
    /\ LET i == LastOfSorted(gen.sata_osds)
           name == gen.sata_osds[i][1]
           osds == gen.sata_osds[i][2]
       IN gen' = [gen EXCEPT !.yields = Append(@, <<name, osds[Len(osds)]>>),
                             !.sata_osds = NonEmpty([@ EXCEPT ![i] = <<name, Pop(osds)>>])]
    /\ UNCHANGED <<now, opts, mainVars, files, runVars, evt, samplerVars, reb, cluster, health>>

\* iter_osds, line 25: the dict is empty, the generator is exhausted.
IterOsdsStop ==
    /\ gen.pc = "loop"
    /\ gen.sata_osds = <<>>
    /\ gen' = [gen EXCEPT !.pc = "done"]
    /\ UNCHANGED <<now, opts, mainVars, files, runVars, evt, samplerVars, reb, cluster, health>>

\* ------------------------------------------------------------- rebalance
SubPhase(out) == IF out THEN "out" ELSE "in"

SetTime(times, i, key, t) ==
    [p \in DOMAIN times \cup {<<i, key>>} |-> IF p = <<i, key>> THEN t ELSE times[p]]

\* rebalance, lines 144-152: the rendered config and the OSD config dump.
RebalanceSetup ==
    /\ fpc = "rebalance"
    /\ \E c \in {"missing", "bad", "ok"}, dump \in CmdOutcomesNoTimeout :
          CASE c = "missing" -> Uncaught("FileNotFoundError") /\ UNCHANGED <<cfg, files>>
            [] c = "bad" -> Uncaught("KeyError") /\ UNCHANGED <<cfg, files>>
            [] c = "ok" /\ dump = "nonzero" ->
                 /\ Uncaught("CalledProcessError")
                 /\ cfg' = c
                 /\ files' = TruncateFile(WriteFile(files, RootDir, "cfg.fio", 0),
                                          RootDir, "osd_config", 0)
            [] OTHER ->
                 /\ cfg' = c
                 /\ files' = WriteFile(WriteFile(files, RootDir, "cfg.fio", 0),
                                       RootDir, "osd_config", 0)
                 /\ fpc' = "rb_report"
                 /\ UNCHANGED <<exc, result>>
    /\ UNCHANGED <<now, opts, gen, dirs, qi, max_p, fio_runs, evt, samplerVars, reb, cluster,
                   health>>

\* rebalance, lines 158-164: the weights to restore are a constant per
\* OSD id (1.85199, here in units of 10^-5); then the cluster report.
weights_of_nodes(osd_id) == OrigWeight

RebalanceReport ==
    /\ fpc = "rb_report"
    /\ \E outcome \in CmdOutcomes :
          /\ files' = run_cmd_to(files, RootDir, "report.json", 0, outcome)
          /\ IF run_cmd_to_exc(outcome) # "none"
             THEN Uncaught(run_cmd_to_exc(outcome))
             ELSE fpc' = "rb_loop" /\ UNCHANGED <<exc, result>>
    /\ UNCHANGED <<now, opts, gen, runVars, evt, samplerVars, reb, cluster, health>>

\* rebalance, lines 165-168 and 195-196: the two loop heads.  A new
\* sub-phase records start_out / start_in; after the last iteration the
\* timing record is written.
RebalanceLoop ==
    /\ fpc = "rb_loop"
    /\ IF reb.i >= opts.count
       THEN /\ files' = WriteFile(files, RootDir, "timings.json", 0)
            /\ reb' = [reb EXCEPT !.saved = reb.times]
            /\ fpc' = "main_done"
       ELSE /\ reb' = [reb EXCEPT !.start = now,
                                   !.k = 1,
                                   !.times = SetTime(reb.times, reb.i,
                                                     "start_" \o SubPhase(reb.out), now)]
            /\ fpc' = "rb_reweight"
            /\ UNCHANGED files
    /\ UNCHANGED <<now, opts, gen, exc, result, runVars, evt, samplerVars, cluster, health>>

\* rebalance, lines 170-173: one "ceph osd crush reweight" per OSD of
\* opts.osd, to 0 when evacuating, else to weights_of_nodes[osd_id].
RebalanceReweight ==
    /\ fpc = "rb_reweight"
    /\ IF reb.k > Len(opts.osd)
       THEN fpc' = "rb_start_barrier" /\ UNCHANGED <<exc, result, reb, cluster>>
       ELSE \E rc \in CmdOutcomesNoTimeout :
              LET osd_id == opts.osd[reb.k]
                  w == IF reb.out THEN 0 ELSE weights_of_nodes(osd_id) IN
              IF rc = "ok"
              THEN /\ cluster' = Reweight(cluster, osd_id, w)
                   /\ reb' = [reb EXCEPT !.k = reb.k + 1,
                                          !.applied = reb.applied \cup {<<osd_id, w>>}]
                   /\ UNCHANGED <<fpc, exc, result>>
              ELSE Uncaught("CalledProcessError") /\ UNCHANGED <<reb, cluster>>
    /\ UNCHANGED <<now, opts, gen, files, runVars, evt, samplerVars, health>>

\* An exception of no_recovery() leaves rebalance and main.
BarrierStep(r, onTrue, onFalse) ==
    CASE r = "true" -> fpc' = onTrue /\ UNCHANGED <<exc, result>>
      [] r = "false" -> fpc' = onFalse /\ UNCHANGED <<exc, result>>
      [] OTHER -> Uncaught(r)

\* What the barriers of the sub-phase have seen of the recovery so far
\* ("none", "active", "over"), after no_recovery() answered r.
Observed(r, obs) ==
    CASE r = "false" -> "active"
      [] r = "true" /\ obs = "active" -> "over"
      [] OTHER -> obs

\* A faulty variant of RebalanceStartBarrier: the loop condition is
\* negated (while not no_recovery()), so the barrier is left when no
\* recovery is active.
RebalanceStartBarrier_Negated ==
    /\ fpc = "rb_start_barrier"
    /\ \E outcome \in CmdOutcomes :
          /\ BarrierStep(no_recovery(outcome, cluster), "rb_next", "rb_start_sleep")
          /\ reb' = [reb EXCEPT !.obs = Observed(no_recovery(outcome, cluster), reb.obs)]
    /\ UNCHANGED <<now, opts, gen, files, runVars, evt, samplerVars, cluster, health>>

\* rebalance, line 176: while no_recovery(): one poll of the start barrier.
RebalanceStartBarrier ==
    /\ fpc = "rb_start_barrier"
    /\ \E outcome \in CmdOutcomes :
          /\ BarrierStep(no_recovery(outcome, cluster), "rb_start_sleep", "rb_next")
          /\ reb' = [reb EXCEPT !.obs = Observed(no_recovery(outcome, cluster), reb.obs)]
    /\ UNCHANGED <<now, opts, gen, files, runVars, evt, samplerVars, cluster, health>>

\* rebalance, line 177: time.sleep(0.1) between two polls of the start
\* barrier.
RebalanceStartSleep ==
    /\ fpc = "rb_start_sleep"
    /\ fpc' = "rb_start_barrier"
    /\ UNCHANGED <<now, opts, gen, exc, result, files, runVars, evt, samplerVars, reb, cluster,
                   health>>

\* rebalance, line 179: next = start.
RebalanceNext ==
    /\ fpc = "rb_next"
    /\ reb' = [reb EXCEPT !.next = reb.start]
    /\ fpc' = "rb_done_barrier"
    /\ UNCHANGED <<now, opts, gen, exc, result, files, runVars, evt, samplerVars, cluster, health>>

\* rebalance, line 181: while not no_recovery().
RebalanceDoneBarrier ==
    /\ fpc = "rb_done_barrier"
    /\ \E outcome \in CmdOutcomes :
          /\ BarrierStep(no_recovery(outcome, cluster), "rb_finish", "rb_fio")
          /\ reb' = [reb EXCEPT !.obs = Observed(no_recovery(outcome, cluster), reb.obs)]
    /\ UNCHANGED <<now, opts, gen, files, runVars, evt, samplerVars, cluster, health>>

\* rebalance, lines 182-186: next += opts.timeout; idx += 1; the fio
\* invocation writing monitoring/{idx}.json is launched (launch: the
\* time of the launch, to measure the spacing of the invocations of a
\* sub-phase).
RebalanceFio ==
    /\ fpc = "rb_fio"
    /\ reb.idx < MaxFio
    /\ reb' = [reb EXCEPT !.next = reb.next + opts.timeout,
                           !.idx = reb.idx + 1,
                           !.launch = now,
                           !.ran = 0]
    /\ fpc' = "rb_fio_run"
    /\ UNCHANGED <<now, opts, gen, exc, result, files, runVars, evt, samplerVars, cluster, health>>

\* rebalance, line 186: subprocess.check_output(cmd) returns (ran: the
\* seconds the invocation took), or raises on a non-zero exit.
RebalanceFioDone ==
    /\ fpc = "rb_fio_run"
    /\ \E rc \in CmdOutcomesNoTimeout :
          IF rc = "ok"
          THEN /\ files' = WriteFile(files, MonDir, "fio", reb.idx - 1)
               /\ reb' = [reb EXCEPT !.ran = now - reb.launch]
               /\ fpc' = "rb_sleep"
               /\ UNCHANGED <<exc, result>>
          ELSE /\ Uncaught("CalledProcessError")
               /\ files' \in FioLeaves(files, MonDir, "fio", reb.idx - 1)
               /\ UNCHANGED reb
    /\ UNCHANGED <<now, opts, gen, runVars, evt, samplerVars, cluster, health>>

\* rebalance, lines 187-190: sleep for the rest of the tick, if any.
RebalanceSleep ==
    /\ fpc = "rb_sleep"
    /\ now >= reb.next
    /\ fpc' = "rb_done_barrier"
    /\ UNCHANGED <<now, opts, gen, exc, result, files, runVars, evt, samplerVars, reb, cluster,
                   health>>

\* A faulty variant of RebalanceFinish: the labels of the two sub-phases are
\* swapped in the key of the finish time.
RebalanceFinish_SwappedKeys ==
    /\ fpc = "rb_finish"
    /\ reb' = [reb EXCEPT !.times = SetTime(reb.times, reb.i,
                                            "finish_" \o SubPhase(~reb.out), now),
                           !.out = ~reb.out,
                           !.i = IF reb.out THEN reb.i ELSE reb.i + 1,
                           !.start = 0, !.next = 0, !.k = 1,
                           !.launch = -1, !.ran = 0, !.obs = "none"]
    /\ fpc' = "rb_loop"
    /\ UNCHANGED <<now, opts, gen, exc, result, files, runVars, evt, samplerVars, cluster, health>>

\* rebalance, line 193: finish_out / finish_in; then the next sub-phase
\* (for out in [True, False]) or the next iteration.  start, next and the
\* OSD loop variable are assigned again before they are read: the model
\* clears them here.
RebalanceFinish ==
    /\ fpc = "rb_finish"
    /\ reb' = [reb EXCEPT !.times = SetTime(reb.times, reb.i,
                                            "finish_" \o SubPhase(reb.out), now),
                           !.out = ~reb.out,
                           !.i = IF reb.out THEN reb.i ELSE reb.i + 1,
                           !.start = 0, !.next = 0, !.k = 1,
                           !.launch = -1, !.ran = 0, !.obs = "none"]
    /\ fpc' = "rb_loop"
    /\ UNCHANGED <<now, opts, gen, exc, result, files, runVars, evt, samplerVars, cluster, health>>

\* ------------------------------------------------------------------ time
\* The sampler thread has a step to take that waits for nothing: the
\* thread has just been started, stop_evt.wait() is due to return (the
\* event is set or the deadline has come), a tick is beginning, or the
\* capture has used up its timeout.
SamplerRunnable ==
    \/ tpc \in {"started", "tick"}
    \/ tpc = "wait" /\ (evt \/ now >= next)
    \/ tpc = "capture" /\ now - cap_start >= CaptureTimeout

\* The main thread is leaving the with statement: evt.set() follows the
\* end of run_test at once, and th.join() returns as soon as the thread
\* has ended.
StopRunnable ==
    \/ fpc = "mon_finally"
    \/ fpc = "mon_join" /\ tpc \in Terminated

\* A second passes.  The main thread may take any time over the commands
\* it runs; the steps that wait for nothing (those of the sampler thread
\* above, the stop of the sampler) are taken as soon as they are due, so
\* the clock does not advance past one.  In fio_test nothing reads the
\* clock before the sampler thread is started: there the clock counts
\* from th.start().  After main was left by an interrupt the sampler
\* thread, if it has not ended, runs on, and so does the clock.
Tick ==
    /\ result = "running" \/ tpc \notin Terminated \cup {"none"}
    /\ fpc # "idle"
    /\ opts.subparser_name = "fio_test" => tpc # "none"
    /\ ~SamplerRunnable
    /\ ~StopRunnable
    /\ now < (IF opts.subparser_name = "rebalance" THEN MaxRebTime ELSE MaxTime)
    /\ now' = now + 1
    /\ UNCHANGED <<opts, gen, mainVars, files, runVars, evt, samplerVars, reb, cluster, health>>

\* ----------------------------------------------------------------- inputs
\* The crush weights before the run (units of 10^-5): OSD 1 has the
\* weight the program assumes, every other OSD a weight of its own.
InitialWeight(o) == IF o = 1 THEN OrigWeight ELSE OrigWeight + o

\* The OSDs of the cluster: one more than the command line can name.
Osds == 1..(MaxOsd + 1)

FioTestOpts ==
    {[subparser_name |-> "fio_test", qd |-> q, lat_limit |-> DefaultLatLimit,
      monitoring_period |-> m, osd |-> <<>>, count |-> 0, timeout |-> 0] :
        q \in QDLists, m \in Periods}

RebalanceOpts ==
    {[subparser_name |-> "rebalance", qd |-> <<1>>, lat_limit |-> DefaultLatLimit,
      monitoring_period |-> 1, osd |-> o, count |-> c, timeout |-> t] :
        o \in OsdLists, c \in 0..MaxCount, t \in Timeouts}

NoOpts ==
    [subparser_name |-> "none", qd |-> <<>>, lat_limit |-> DefaultLatLimit,
     monitoring_period |-> 1, osd |-> <<>>, count |-> 0, timeout |-> 0]

EmptyTimes == [p \in {} |-> 0]

NoHealthLoop == [pc |-> "off", polls |-> 0, query |-> "none", last |-> "none"]

\* The cluster before the run: no data is moving; before a rebalance run
\* a health check other than PG_DEGRADED may be raised (a flag set, a
\* clock skew), which lasts for the run.
InitialClusters ==
    {[weights |-> [o \in Osds |-> InitialWeight(o)], state |-> "clean", warn |-> w] :
        w \in IF opts.subparser_name = "rebalance" THEN BOOLEAN ELSE {FALSE}}

\* Nothing has run yet: the state every run starts from.
Fresh ==
    /\ now = 0
    /\ cluster \in InitialClusters
    /\ exc = "none"
    /\ result = "running"
    /\ files = {}
    /\ dirs = {}
    /\ qi = 0
    /\ cfg = "unread"
    /\ max_p = 0
    /\ fio_runs = <<>>
    /\ evt = FALSE
    /\ tpc = "none"
    /\ next = 0
    /\ cap_start = 0
    /\ ticks = 0
    /\ reb = [i |-> 0, out |-> TRUE, k |-> 1, start |-> 0, next |-> 0, idx |-> 0,
              times |-> EmptyTimes, saved |-> EmptyTimes, applied |-> {},
              launch |-> -1, ran |-> 0, obs |-> "none"]

Init ==
    /\ \/ /\ opts \in FioTestOpts \cup RebalanceOpts
          /\ fpc = "main"
          /\ health = NoHealthLoop
       \/ /\ opts = NoOpts
          /\ fpc = "idle"
          /\ health = [NoHealthLoop EXCEPT !.pc = "poll"]
    /\ Fresh
    /\ gen = NoGen

Next ==
    \/ MainCheckPool
    \/ PrepareOutputDir
    \/ GetVolumeSize
    \/ SaveInitialInfo
    \/ Dispatch
    \/ MainDone
    \/ MonitoringEnter
    \/ MonitoringSet
    \/ MonitoringJoin
    \/ RunTestOpenCfg
    \/ RunTestPhase
    \/ RunTestSnapshotOpen
    \/ RunTestSnapshot
    \/ RunTestFioLaunch
    \/ RunTestFio
    \/ RunTestInterval
    \/ RunTestEvaluate
    \/ RunTestInterrupt
    \/ MonitoringInterrupt
    \/ SamplerStart
    \/ SamplerWait
    \/ SamplerTick
    \/ SamplerCapture
    \/ RecoveryBegins
    \/ RecoveryEnds
    \/ HealthLoopPoll
    \/ RebalanceSetup
    \/ RebalanceReport
    \/ RebalanceLoop
    \/ RebalanceReweight
    \/ RebalanceStartBarrier
    \/ RebalanceStartSleep
    \/ RebalanceNext
    \/ RebalanceDoneBarrier
    \/ RebalanceFio
    \/ RebalanceFioDone
    \/ RebalanceSleep
    \/ RebalanceFinish
    \/ Tick

Spec == Init /\ [][Next]_vars

\* ------------------------------------------------- the sampler under time
\* fio_test runs of one phase with a sampling period shorter than the
\* capture timeout, to follow the sampler's deadlines second by second.
SamplerPeriods == {1, 2}

SamplerOpts ==
    {[subparser_name |-> "fio_test", qd |-> <<1>>, lat_limit |-> DefaultLatLimit,
      monitoring_period |-> m, osd |-> <<>>, count |-> 0, timeout |-> 0] :
        m \in SamplerPeriods}

SamplerInit ==
    /\ opts \in SamplerOpts
    /\ fpc = "main"
    /\ health = NoHealthLoop
    /\ Fresh
    /\ gen = NoGen

SamplerStep == SamplerStart \/ SamplerWait \/ SamplerTick \/ SamplerCapture

FioTestNext ==
    \/ MainCheckPool
    \/ PrepareOutputDir
    \/ GetVolumeSize
    \/ SaveInitialInfo
    \/ Dispatch
    \/ MainDone
    \/ MonitoringEnter
    \/ MonitoringSet
    \/ MonitoringJoin
    \/ RunTestOpenCfg
    \/ RunTestPhase
    \/ RunTestSnapshotOpen
    \/ RunTestSnapshot
    \/ RunTestFioLaunch
    \/ RunTestFio
    \/ RunTestInterval
    \/ RunTestEvaluate
    \/ RunTestInterrupt
    \/ MonitoringInterrupt
    \/ SamplerStart
    \/ SamplerWait
    \/ SamplerTick
    \/ SamplerCapture
    \/ Tick

\* Both threads are scheduled: a step of the sampler thread that stays
\* possible is taken, and so are evt.set() and the return of th.join()
\* in the main thread.
SamplerSpec ==
    /\ SamplerInit
    /\ [][FioTestNext]_vars
    /\ WF_vars(SamplerStep)
    /\ WF_vars(MonitoringSet)
    /\ WF_vars(MonitoringJoin)

\* ------------------------------------------------ rebalance under fairness
RebalanceInit ==
    /\ opts \in RebalanceOpts
    /\ fpc = "main"
    /\ health = NoHealthLoop
    /\ Fresh
    /\ gen = NoGen

\* The steps of the main thread in a rebalance run.
RebalanceMain ==
    \/ MainCheckPool
    \/ PrepareOutputDir
    \/ GetVolumeSize
    \/ SaveInitialInfo
    \/ Dispatch
    \/ MainDone
    \/ RebalanceSetup
    \/ RebalanceReport
    \/ RebalanceLoop
    \/ RebalanceReweight
    \/ RebalanceStartBarrier
    \/ RebalanceStartSleep
    \/ RebalanceNext
    \/ RebalanceDoneBarrier
    \/ RebalanceFio
    \/ RebalanceFioDone
    \/ RebalanceSleep
    \/ RebalanceFinish

RebalanceNextStep ==
    \/ RebalanceMain
    \/ RecoveryBegins
    \/ RecoveryEnds
    \/ Tick

\* The main thread keeps running, time passes, and every topology
\* mutation is followed by a recovery period that ends: data left to
\* move starts moving, and data that is moving stops moving.
RebalanceSpec ==
    /\ RebalanceInit
    /\ [][RebalanceNextStep]_vars
    /\ WF_vars(RebalanceMain)
    /\ WF_vars(RecoveryBegins)
    /\ WF_vars(RecoveryEnds)
    /\ WF_vars(Tick)

\* ------------------------------------------------ iter_osds on OSD trees
\* helpers.main: list(iter_osds(tree)) on every tree of OsdTrees.
IterOsdsInit ==
    /\ opts = NoOpts
    /\ fpc = "idle"
    /\ health = NoHealthLoop
    /\ Fresh
    /\ gen \in {[NoGen EXCEPT !.pc = "start", !.data = t] : t \in OsdTrees}

IterOsdsNext ==
    \/ IterOsdsStart
    \/ IterOsdsYield
    \/ IterOsdsStop

IterOsdsSpec == IterOsdsInit /\ [][IterOsdsNext]_vars

\* ================================================================ claims
FioTest == opts.subparser_name = "fio_test"
Rebalance == opts.subparser_name = "rebalance"

\* Control is back in main, after the with statement of lines 275-276.
LeftMonitoring == FioTest /\ tpc # "none" /\ fpc \in {"main_done", "exited"}

\* The queue depths of the phases run_test has started.
Started == {opts.qd[j] : j \in 1..qi}

\* C1: on every exit path (return after the last phase, break on the
\* stop criterion, exception, interrupt) the stop event is set and the
\* sampler thread has ended before control is back in main, and no step
\* of the sampler can run from then on.
C1_SamplerStoppedOnExit ==
    LeftMonitoring => evt /\ tpc \in Terminated /\ ~ENABLED SamplerStep

\* C2: once the latency of a phase exceeds opts.lat_limit, no later phase
\* is executed: run_test has returned, and no run directory, file or
\* load generator launch exists for a queue depth after that phase.
C2_NoPhaseAfterStop ==
    (FioTest /\ qi >= 1 /\ LatencyExceeded(max_p, opts.lat_limit)) =>
        /\ fpc \in {"mon_finally", "mon_join", "main_done", "exited"}
        /\ dirs = Started
        /\ Len(fio_runs) = qi
        /\ \A f \in files : f.dir \in {RootDir, MonDir} \cup Started

\* The ceiling was exceeded in a phase that is not the last of the list.
C2_Witness ==
    /\ FioTest
    /\ LatencyExceeded(max_p, opts.lat_limit)
    /\ qi < Len(opts.qd)
    /\ fpc = "exited"

\* The result artifacts of a phase: fio's output and the interval record.
HasResults(qd) ==
    /\ File(qd, "fio_output.json", 0, TRUE) \in files
    /\ File(qd, "interval.json", 0, TRUE) \in files

\* C3: a stop by the criterion in phase k is a clean end: when main has
\* ended, exactly the k phases started have their result artifacts, the
\* sampler is stopped and main returned 0, as after a run of all phases;
\* a run ended by an exception never returned 0.  (A run that is
\* interrupted while it stops the sampler is ended by the interrupt.)
C3_CleanStop ==
    (FioTest /\ fpc = "exited") =>
        /\ (qi >= 1 /\ LatencyExceeded(max_p, opts.lat_limit) /\ exc # "KeyboardInterrupt") =>
              /\ result = "return0"
              /\ exc = "none"
              /\ evt /\ tpc \in Terminated
              /\ Cardinality(Started) = qi
              /\ \A j \in 1..Len(opts.qd) : HasResults(opts.qd[j]) <=> opts.qd[j] \in Started
        /\ (qi > Len(opts.qd) /\ exc = "none") => result = "return0"
        /\ exc # "none" => result = "uncaught"

\* The second phase was the first to exceed the ceiling; main returned 0.
C3_Witness ==
    /\ FioTest
    /\ fpc = "exited"
    /\ qi = 2
    /\ LatencyExceeded(max_p, opts.lat_limit)
    /\ result = "return0"

\* C4: a non-zero exit of the load generator is fatal for the run: it is
\* the last launch, the exception leaves run_test, the failing phase has
\* neither after-snapshot nor interval record, no later phase has started
\* and main does not return 0.  (An interrupt in the finally clause of
\* monitoring replaces the exception that leaves main.)
C4_FioFailureIsFatal ==
    \A n \in 1..Len(fio_runs) :
        fio_runs[n].rc = "nonzero" =>
            /\ n = Len(fio_runs)
            /\ qi = n
            /\ dirs = Started
            /\ exc = "CalledProcessError" \/ (exc = "KeyboardInterrupt" /\ fpc = "exited")
            /\ fpc \in {"mon_finally", "mon_join", "exited"}
            /\ result # "return0"
            /\ ~Exists(files, fio_runs[n].qd, "after.json", 0)
            /\ ~Exists(files, fio_runs[n].qd, "interval.json", 0)

\* The load generator failed in the second phase and main has ended.
C4_Witness ==
    /\ Len(fio_runs) = 2
    /\ fio_runs[2].rc = "nonzero"
    /\ fpc = "exited"
    /\ result = "uncaught"

\* C5: a failed sample never aborts the sampler: whatever way a capture
\* fails, the sampler thread ends only after the stop event was set.
C5_SamplerSurvivesFailedSample ==
    tpc \in Terminated => evt

\* The snapshot artifacts: the outputs of run_cmd_to and of the sampler.
SnapshotNames == {"rbd_info", "rbd_du", "before.json", "after.json", "report.json",
                  "radosdf"}

\* The capture that writes the file is still running: the sampler's
\* capture of the current tick, or a snapshot of the current phase.
InFlight(f) ==
    \/ f.name = "radosdf" /\ f.ts = ticks /\ tpc = "capture"
    \/ /\ fpc \in {"rt_before_run", "rt_after_run"}
       /\ f.dir = opts.qd[qi]
       /\ f.name = SnapshotName(fpc)

\* C6: every snapshot file that exists (and is not being written right
\* now) was produced by a capture that succeeded.
C6_NoPartialSnapshot ==
    \A f \in files : (f.name \in SnapshotNames /\ ~InFlight(f)) => f.ok

\* C7: the before and after snapshots are best-effort.  A phase whose
\* before-snapshot failed still launches the load generator, and a phase
\* whose after-snapshot failed still gets its interval record.  (A
\* snapshot that is still being taken, or was cut short by an interrupt
\* of the run, has not failed.)
C7_BestEffortSnapshots ==
    (FioTest /\ exc # "KeyboardInterrupt") =>
        \A j \in 1..qi :
            LET qd == opts.qd[j] IN
            /\ (Exists(files, qd, "before.json", 0)
                  /\ File(qd, "before.json", 0, TRUE) \notin files)
               => (j = qi /\ fpc \in {"rt_before_run", "rt_fio"}) \/ Len(fio_runs) >= j
            /\ (Exists(files, qd, "after.json", 0)
                  /\ File(qd, "after.json", 0, TRUE) \notin files)
               => \/ j = qi /\ fpc \in {"rt_after_run", "rt_interval"}
                  \/ Exists(files, qd, "interval.json", 0)

\* C8: a timeout of the cluster condition query never aborts the run:
\* no_recovery answers "false" for it.  (In rebalance the only call that
\* lets TimeoutExpired through is no_recovery: run_cmd_to catches it.)
C8_BarrierConservatism ==
    Rebalance => ~(fpc = "exited" /\ exc = "TimeoutExpired")

\* C9: ceph_health_ok answers not-healthy when its status query times
\* out, and the caller looping on it keeps looping.
C9_HealthTimeoutIsNotHealthy ==
    health.query = "timeout" => health.last = "false" /\ health.pc = "poll"

\* The timing record written at the end of rebalance.
TimingKeys == {"start_out", "finish_out", "start_in", "finish_in"}
TimingsWritten == Rebalance /\ Exists(files, RootDir, "timings.json", 0)

\* One entry per iteration with all four timestamps, ordered within the
\* iteration.
TimingRecordComplete ==
    /\ DOMAIN reb.saved = (0..(opts.count - 1)) \X TimingKeys
    /\ \A i \in 0..(opts.count - 1) :
          /\ reb.saved[<<i, "start_out">>] <= reb.saved[<<i, "finish_out">>]
          /\ reb.saved[<<i, "finish_out">>] <= reb.saved[<<i, "start_in">>]
          /\ reb.saved[<<i, "start_in">>] <= reb.saved[<<i, "finish_in">>]

\* C10 (as amended): a completed rebalance run has one entry per
\* iteration 0..N-1 with all four timestamps, start_out <= finish_out <=
\* start_in <= finish_in, and the start_out of iteration i+1 is not
\* earlier than the finish_in of iteration i (the two are whole seconds
\* read back to back, and may be equal).
C10_TimingRecordOrdered ==
    TimingsWritten =>
        /\ TimingRecordComplete
        /\ \A i \in 0..(opts.count - 2) :
              reb.saved[<<i + 1, "start_out">>] >= reb.saved[<<i, "finish_in">>]

\* C10 as stated: the start_out of iteration i+1 is later than the
\* finish_in of iteration i.
C10_StartStrictlyAfterFinish ==
    TimingsWritten =>
        /\ TimingRecordComplete
        /\ \A i \in 0..(opts.count - 2) :
              reb.saved[<<i + 1, "start_out">>] > reb.saved[<<i, "finish_in">>]

\* A run of two iterations completed, time having passed within the
\* first iteration and none between the two.
C10_Witness ==
    /\ TimingsWritten
    /\ opts.count = 2
    /\ reb.saved[<<0, "start_out">>] < reb.saved[<<0, "finish_in">>]
    /\ reb.saved[<<1, "start_out">>] = reb.saved[<<0, "finish_in">>]
\* C11: when the stop returns from a sampler that ran until it was stopped,
\* the number of ticks it began is within 1 of floor(D / I), D being the
\* seconds from th.start() (where the clock of fio_test begins) to the
\* return of th.join() and I the sampling period.
C11_TickCountWithinOne ==
    [][(MonitoringJoin /\ tpc = "finished") =>
          (ticks - (now \div opts.monitoring_period)) \in -1..1]_vars

\* C12: at every tick the next deadline is the previous deadline plus the
\* period (the first deadline being the start time).
C12_FixedPeriodFromDeadline ==
    [][SamplerTick => next' = next + opts.monitoring_period]_vars

\* C13: stopping the sampler has join semantics.  Once the event is set
\* the sampler does not arrive at the beginning of another tick (only a
\* tick for which the wait had already returned can still begin, so at
\* most one does); the thread ends only at the wait between two ticks or
\* by a failure of the capture itself, never in the middle of a tick;
\* th.join() returns only after the thread has ended; and with both
\* threads scheduled the stop, once begun, ends.
C13_StopJoins ==
    /\ [][(evt /\ tpc # "tick") => tpc' # "tick"]_vars
    /\ [][(tpc \notin Terminated /\ tpc' \in Terminated) =>
             (evt /\ tpc = "wait") \/ tpc = "capture"]_vars
    /\ [][MonitoringJoin => evt /\ tpc \in Terminated]_vars
    /\ (fpc = "mon_finally") ~> (fpc \in {"main_done", "exited"})

\* The event is set and th.join() is waiting for a capture that has been
\* running for some seconds.
C13_Witness ==
    /\ fpc = "mon_join"
    /\ evt
    /\ tpc = "capture"
    /\ now - cap_start >= 2

\* The run ended on a configuration or precondition error: the template
\* has a placeholder format() cannot resolve (KeyError), the target pool
\* is not a test pool and --unsafe was not given (main returns 1), or the
\* output directory exists and --wipe was not given (SystemExit).
ConfigError ==
    /\ fpc = "exited"
    /\ exc = "KeyError" \/ result \in {"return1", "SystemExit1"}

\* C14: a run that ends on a configuration or precondition error has done
\* no partial work: the sampler was never started, no per-phase directory
\* or artifact exists, no load generator was launched and no weight was
\* changed.
C14_NoPartialWork ==
    ConfigError =>
        /\ tpc = "none"
        /\ ticks = 0
        /\ dirs = {}
        /\ \A f \in files : f.dir = RootDir
        /\ fio_runs = <<>>
        /\ reb.idx = 0
        /\ reb.applied = {}

\* C15: two successive load-generator invocations of one sub-phase start
\* at least opts.timeout apart, unless the earlier one itself ran for
\* longer than opts.timeout; whatever time passed before the barrier.
C15_FioSpacing ==
    [][(RebalanceFio /\ reb.launch >= 0) =>
          \/ now - reb.launch >= opts.timeout
          \/ reb.ran > opts.timeout]_vars

\* The positions of rebalance from the start barrier to the finish
\* timestamp of a sub-phase.
BarrierPcs ==
    {"rb_start_barrier", "rb_start_sleep", "rb_next", "rb_done_barrier", "rb_fio",
     "rb_fio_run", "rb_sleep", "rb_finish"}

\* The weight the current sub-phase gives to an OSD of the set.
TargetWeight(osd_id) == IF reb.out THEN 0 ELSE weights_of_nodes(osd_id)

\* The topology change of the current sub-phase has been applied to
\* every member of the OSD set.
MutationApplied ==
    \A j \in 1..Len(opts.osd) :
        /\ <<opts.osd[j], TargetWeight(opts.osd[j])>> \in reb.applied
        /\ cluster.weights[opts.osd[j]] = TargetWeight(opts.osd[j])

\* The order of a sub-phase, whatever oracle the start barrier polls: the
\* barriers run only after the change was applied to every member, a
\* load generator is launched only after recovery was observed active in
\* this sub-phase, and the finish timestamp is recorded only after
\* recovery was then observed to be over.
BarrierOrder ==
    Rebalance =>
        /\ fpc \in BarrierPcs => MutationApplied
        /\ fpc \in {"rb_start_barrier", "rb_start_sleep"} => reb.obs = "none" /\ reb.launch < 0
        /\ fpc \in {"rb_fio", "rb_fio_run", "rb_sleep"} => reb.obs = "active"
        /\ fpc = "rb_finish" => reb.obs = "over"

\* A poll of the start barrier that ends the loop.
LeaveStartBarrier == RebalanceStartBarrier /\ fpc' = "rb_next"

\* C16 (as amended): each sub-phase follows the barrier protocol in
\* order, and its start barrier polls no_recovery(), the oracle of the
\* completion barrier: a poll can end the start barrier exactly when
\* PG_DEGRADED is raised, whatever the health status is.
C16_BarrierProtocol ==
    /\ BarrierOrder
    /\ (Rebalance /\ fpc = "rb_start_barrier") =>
          (ENABLED LeaveStartBarrier <=> cluster.state = "degraded")

\* C16 as stated: the start barrier polls isHealthy(): a poll can end the
\* start barrier exactly when the cluster is not healthy.
C16_StartBarrierPollsHealth ==
    /\ BarrierOrder
    /\ (Rebalance /\ fpc = "rb_start_barrier") =>
          (ENABLED LeaveStartBarrier <=> ceph_health_ok(ceph_status(cluster)) = "false")

\* The finish timestamp of a sub-phase is about to be recorded, after a
\* load generator run, in a cluster that was unhealthy all along.
C16_Witness ==
    /\ Rebalance
    /\ fpc = "rb_finish"
    /\ reb.obs = "over"
    /\ reb.launch >= 0
    /\ cluster.warn

\* The OSDs named on the command line.
OsdSet == {opts.osd[j] : j \in 1..Len(opts.osd)}

\* C17: every weight applied is zero (evacuate) or the weight the OSD had
\* before the run (restore), no OSD outside the set is ever reweighted,
\* and after a run that completed every OSD has the weight it had before
\* the run.
C17_WeightsRestored ==
    Rebalance =>
        /\ \A a \in reb.applied : a[1] \in OsdSet /\ a[2] \in {0, InitialWeight(a[1])}
        /\ \A o \in Osds \ OsdSet : cluster.weights[o] = InitialWeight(o)
        /\ TimingsWritten => \A o \in Osds : cluster.weights[o] = InitialWeight(o)

\* The largest of the values of the job groups.
LargestOf(data) ==
    CHOOSE m \in {data[j] : j \in 1..Len(data)} : \A j \in 1..Len(data) : m >= data[j]

\* A raw value in milliseconds: raw / 10^6 as whole milliseconds and
\* millionths (90000000 is 90 and 0 millionths, 45500000 is 45.5).
Milliseconds(raw) == [whole |-> raw \div Million, millionths |-> raw % Million]

\* A value in milliseconds is strictly greater than a whole number of
\* milliseconds.
StrictlyAbove(ms, limit) ==
    ms.whole > limit \/ (ms.whole = limit /\ ms.millionths > 0)

\* The loop of lines 114-118 computes the largest value of every output.
MaxIsLargest == \A data \in JobOutputs : MaxP(data, 0) = LargestOf(data)

\* Every evaluation step: the latency is the largest value of fio's
\* output, and run_test ends exactly when it is strictly above the
\* ceiling.
EvaluationStops ==
    [][(fpc = "rt_eval" /\ fpc' # "rt_eval" /\ RunTestEvaluate) =>
          /\ \E data \in JobOutputs :
                max_p' = LargestOf(data) /\ RunTestEvaluateOutput(data)
          /\ fpc' = "mon_finally" <=> StrictlyAbove(Milliseconds(max_p'), opts.lat_limit)
          /\ fpc' # "mon_finally" => fpc' = "rt_phase" /\ qi' = qi + 1]_vars

\* C18: an evaluation step sets the phase's latency to the largest value
\* over the job groups, and it ends run_test exactly when that value, in
\* milliseconds, is strictly greater than the ceiling (otherwise the next
\* phase follows); raw 90000000 is 90 ms, the groups 12.0, 45.5, 30.2 ms
\* give 45.5 ms, and a latency equal to the ceiling does not stop.
C18_MaxOverGroupsStrictCeiling ==
    /\ EvaluationStops
    /\ [](/\ MaxIsLargest
          /\ Milliseconds(MaxP(<<90 * Million>>, 0)) = [whole |-> 90, millionths |-> 0]
          /\ Milliseconds(MaxP(<<12 * Million, 45 * Million + 500000,
                                 30 * Million + 200000>>, 0))
                = [whole |-> 45, millionths |-> 500000]
          /\ ~LatencyExceeded(DefaultLatLimit * Million, DefaultLatLimit)
          /\ LatencyExceeded(DefaultLatLimit * Million + 1, DefaultLatLimit))

\* The first phase measured a latency equal to the ceiling, and the
\* second phase has begun.
C18_Witness ==
    /\ FioTest
    /\ fpc = "rt_before"
    /\ qi = 2
    /\ max_p = opts.lat_limit * Million

\* An external command failed, or a precondition of main did not hold:
\* the run ended without completing.
RunFailed == result \in {"uncaught", "return1", "SystemExit1"}

\* The model follows the run no further: the bound on the load generator
\* launches or on the clock is reached.
RunCapped ==
    \/ fpc = "rb_fio" /\ reb.idx >= MaxFio
    \/ fpc = "rb_sleep" /\ now < reb.next /\ now >= MaxRebTime

\* C19: unless an external command fails, a rebalance run eventually
\* writes its timing record (having passed both barriers of every
\* sub-phase of every iteration).
C19_RebalanceCompletes ==
    Rebalance ~> (TimingsWritten \/ RunFailed \/ RunCapped)

\* The (host, osd) pairs of a tree: every child of a host node (type_id 2)
\* that is a node of device class 'sata'.
SataPairs(data) ==
    {<<data[i].name, data[i].children[k]>> :
        <<i, k>> \in {<<i, k>> \in (DOMAIN data) \X (1..MaxTreeOsd + MaxHosts) :
                        /\ data[i].type_id = 2
                        /\ k \in DOMAIN data[i].children
                        /\ \E j \in DOMAIN data : /\ data[j].id = data[i].children[k]
                                                  /\ data[j].dc = "sata"}}

Yielded == {gen.yields[i] : i \in DOMAIN gen.yields}

\* The sata OSDs of a host the generator has not yielded yet.
Remaining(d, name) ==
    IF \E i \in DOMAIN d : d[i][1] = name
    THEN Len(d[CHOOSE i \in DOMAIN d : d[i][1] = name][2])
    ELSE 0

Drawn == {pair[1] : pair \in Yielded}

\* The generator does not raise, yields every pair of the tree at most
\* once and, when exhausted, has yielded each of them; the hosts drawn
\* from stay within one OSD of each other.
IterOsdsSound ==
    gen.pc # "off" =>
        /\ gen.pc # "raised"
        /\ \A i, j \in DOMAIN gen.yields : i # j => gen.yields[i] # gen.yields[j]
        /\ Yielded \subseteq SataPairs(gen.data)
        /\ gen.pc = "done" => Yielded = SataPairs(gen.data)
        /\ \A a, b \in Drawn :
              Remaining(gen.sata_osds, a) - Remaining(gen.sata_osds, b) \in -1..1

\* A yielded pair is taken from a host that has, at that moment, the
\* largest number of OSDs not yet yielded.
DrawnFromLargest ==
    IterOsdsYield =>
        LET name == gen'.yields[Len(gen'.yields)][1]
        IN \A i \in DOMAIN gen.sata_osds :
              Len(gen.sata_osds[i][2]) <= Remaining(gen.sata_osds, name)

\* C20: for every OSD tree, iter_osds terminates having yielded each
\* 'sata' OSD under a host exactly once, every pair is taken from a host
\* with the most OSDs left, and the remaining counts of two hosts that
\* were drawn from differ by at most one.
C20_IterOsdsBalanced == []IterOsdsSound /\ [][DrawnFromLargest]_vars

\* The same restricted to the trees that have a node of class 'sata',
\* where line 19 cannot raise.
IterOsdsBalancedWithSata ==
    /\ []((\E i \in DOMAIN gen.data : gen.data[i].dc = "sata") => IterOsdsSound)
    /\ [][DrawnFromLargest]_vars

====
